---- MODULE Spec2Model ----
(***************************************************************************)
(* Registration-and-payment coordinator of the course/exam marketplace:    *)
(* apply/enroll, complete and payment cancel, the Redis lock they use, the  *)
(* database transactions they run and the pending-count sets they feed.     *)
(***************************************************************************)
EXTENDS Integers, FiniteSets, Sequences, TLC

\* ---------------------------------------------------------------- bounds
MaxRequests == 3        \* requests handled in one behaviour
MaxTime == 3            \* instants timezone.now() can return
MaxLiveRequests == 2    \* requests handled in a behaviour checked for liveness

\* ------------------------------------------------------ program constants
RetryTimes == 3         \* redis_lock(..., retry_times=3, ...)
CardMin == 1000
CardMax == 100000000
KakaoMin == 100
KakaoMax == 50000000
BankMin == 1000
BankMax == 200000000

\* ----------------------------------------------------------- the fixture
Workers == {"w1", "w2"}     \* each worker handles one request at a time
Users == {"u1", "u2"}
Items == {"t1", "c1"}
\* the item rows in the database: c2 is a course that has Registrations
\* from earlier on and that nobody applies for in these behaviours
Catalogue == Items \cup {"c2"}
Strategies == {"kakaopay", "card", "bank_transfer"}
\* the request bodies clients send: the item's price, by a method that takes it
ApplyInputs ==
    [user : Users, item : {"t1"}, amount : {500}, method : {"kakaopay"}]
    \cup [user : Users, item : {"c1"}, amount : {45000}, method : {"card"}]
\* bodies that are refused, sent by u1: the price by a method whose minimum
\* is above it, an amount that is not the price, a method the serializer does
\* not know
RefusedInputs ==
    [user : {"u1"}, item : {"t1"}, amount : {500}, method : {"card", "paypal"}]
    \cup [user : {"u1"}, item : {"t1"}, amount : {45000}, method : {"kakaopay"}]
Reqs == 1..MaxRequests
Passes == {"p1"}            \* the run of the periodic task the beat starts
Overlapping == {"p1", "p2"} \* runs of the task on two Celery workers
Times == 1..MaxTime

ItemType(i) == IF i = "t1" THEN "test" ELSE "course"
Price(i) == IF i = "t1" THEN 500 ELSE 45000
StartAt(i) == IF i = "t1" THEN 1 ELSE 2
EndAt(i) == IF i = "t1" THEN 2 ELSE 3

VARIABLES
    req,        \* request id -> the request's inputs, position and response
    lock,       \* the Redis lock store: lock key -> stored token (0 = absent)
    payments,   \* committed rows of the payments table
    regs,       \* committed rows of test_registrations / course_registrations
    nextPid,    \* next value of the payments id sequence
    nextRid,    \* next value of the registrations id sequence
    pending,    \* the Redis sets test:updated_ids / course:updated_ids
    count,      \* item -> the registration_count column of its row
    rec,        \* pass -> position and locals of a sync_registration_counts run
    registry,   \* PaymentStrategyFactory._strategies: method -> class
    call        \* the last call made of a factory or model method, as written
                \* down by its caller: arguments and result

vars == <<req, lock, payments, regs, nextPid, nextRid, pending, count, rec,
          registry, call>>

\* ------------------------------------------------------------- lock store
\* a lock key that leaves the user out
ApplyLockKeyPerItem(u, i) == [k |-> ItemType(i), u |-> "u1", i |-> i, p |-> 0]
ApplyLockKey(u, i) == [k |-> ItemType(i), u |-> u, i |-> i, p |-> 0]
CancelLockKey(pid) == [k |-> "cancel", u |-> "-", i |-> "-", p |-> pid]
LockKeys == {ApplyLockKey(u, i) : u \in Users, i \in Items}
            \cup {CancelLockKey(p) : p \in Reqs}

\* SET without nx=True
SetAlways(l, key, token) == [l EXCEPT ![key] = token]
\* redis_client.set(key, value, nx=True, ex=timeout): the store afterwards
SetNX(l, key, token) == IF l[key] = 0 THEN [l EXCEPT ![key] = token] ELSE l

\* a plain DEL of the key
DeleteAlways(l, key, token) == [l EXCEPT ![key] = 0]
\* the Lua script of release: delete the key only if it holds the token
ReleaseScript(l, key, token) ==
    IF l[key] = token THEN [l EXCEPT ![key] = 0] ELSE l

\* ------------------------------------------------------------- the ledger
RegsOf(rs, u, i) == {x \in rs : x.user = u /\ x.item = i}
PaymentsOf(ps, u, i) == {x \in ps : x.user = u /\ x.item = i}
PaymentById(pid) == CHOOSE x \in payments : x.id = pid

\* a table without the unique index
NoUniqueIndex(rs, u, i) == FALSE
\* unique_together = [['user', 'test']] / [['user', 'course']]
UniqueViolation(rs, u, i) == RegsOf(rs, u, i) # {}

\* a validation that takes the bounds themselves for out of range
ValidateExclusive(method, amount) ==
    IF method = "kakaopay" THEN amount > KakaoMin /\ amount < KakaoMax
    ELSE IF method = "card" THEN amount > CardMin /\ amount < CardMax
    ELSE amount > BankMin /\ amount < BankMax
\* validate_payment of the strategy classes
ValidatePayment(method, amount) ==
    IF method = "kakaopay" THEN amount >= KakaoMin /\ amount <= KakaoMax
    ELSE IF method = "card" THEN amount >= CardMin /\ amount <= CardMax
    ELSE amount >= BankMin /\ amount <= BankMax

\* the message validate_payment returns next to its verdict
ValidationMessage(method, amount) ==
    IF ValidatePayment(method, amount) THEN "None"
    ELSE IF amount < (IF method = "kakaopay" THEN KakaoMin
                      ELSE IF method = "card" THEN CardMin ELSE BankMin)
    THEN "below the minimum"
    ELSE "above the maximum"

\* a window that closes at end_at
HalfOpen(i, t) == StartAt(i) <= t /\ t < EndAt(i)
\* Test.is_available / Course.is_available
IsAvailable(i, t) == StartAt(i) <= t /\ t <= EndAt(i)

\* the methods a strategy can be registered for, and the strategy classes
Keys == Strategies \cup {"crypto"}
Classes == {"KakaoPayStrategy", "CardPaymentStrategy", "BankTransferStrategy",
            "CryptoPaymentStrategy"}
\* _strategies as the class statement leaves it ("-": no entry)
Builtin ==
    [k \in Keys |-> IF k = "kakaopay" THEN "KakaoPayStrategy"
                    ELSE IF k = "card" THEN "CardPaymentStrategy"
                    ELSE IF k = "bank_transfer" THEN "BankTransferStrategy"
                    ELSE "-"]
\* get_strategy: an instance of the registered class, named by its class
GetStrategy(reg, k) == IF reg[k] = "-" THEN "ValueError" ELSE reg[k]
\* get_supported_methods
SupportedMethods(reg) == {k \in Keys : reg[k] # "-"}
\* a registration that keeps an entry that is already there
RegisterIfAbsent(reg, k, c) == IF reg[k] = "-" THEN [reg EXCEPT ![k] = c] ELSE reg
\* register_strategy: cls._strategies[payment_method] = strategy_class
RegisterStrategy(reg, k, c) == [reg EXCEPT ![k] = c]

NoCall == [fn |-> "-", key |-> "-", class |-> "-", item |-> "-", at |-> 0,
           out |-> "-"]
Bool(b) == IF b THEN "True" ELSE "False"

IdleReq == [kind |-> "none", user |-> "-", item |-> "-", pid |-> 0,
            amount |-> 0, method |-> "-", pc |-> "idle", tries |-> 0,
            pay |-> 0, reg |-> 0, ts |-> 0, del |-> {}, expired |-> FALSE,
            status |-> 0, err |-> "-"]

IdlePass == [pc |-> "idle", ids |-> {}, counts |-> [i \in Catalogue |-> 0],
             after |-> 0]

Init ==
    /\ req = [r \in Reqs |-> IdleReq]
    /\ lock = [k \in LockKeys |-> 0]
    /\ payments = {}
    /\ regs = {}
    /\ nextPid = 1
    /\ nextRid = 1
    /\ pending = {}
    /\ count = [i \in Catalogue |-> 0]
    /\ rec = [p \in Overlapping |-> IdlePass]
    /\ registry = Builtin
    /\ call = NoCall

InFlight == {r \in Reqs : req[r].pc \notin {"idle", "done"}}
CanStart(r) ==
    /\ req[r].pc = "idle"
    /\ IF r = 1 THEN TRUE ELSE req[r - 1].pc # "idle"
    /\ Cardinality(InFlight) < Cardinality(Workers)

\* users are interchangeable: the first request of a behaviour is u1's
Requesters(r) == IF r = 1 THEN {"u1"} ELSE Users

LockKeyOf(r) ==
    IF req[r].kind = "cancel" THEN CancelLockKey(req[r].pid)
    ELSE ApplyLockKey(req[r].user, req[r].item)

\* the expired mark belongs to the request's RedisLock object and goes with it
Respond(q, code, err, pc) ==
    [q EXCEPT !.status = code, !.err = err, !.pc = pc,
              !.expired = IF pc = "done" THEN FALSE ELSE q.expired]

\* timezone.now() at a write: the instant is named after the writing request
Stamp(r) == r

\* the rows a request's transaction writes
PaymentRow(q) ==
    [id |-> q.pay, user |-> q.user, item |-> q.item, amount |-> q.amount,
     method |-> q.method, status |-> "paid", cancelled_at |-> 0]
RegRow(q, rid) ==
    [id |-> rid, user |-> q.user, item |-> q.item,
     status |-> IF ItemType(q.item) = "test" THEN "applied" ELSE "enrolled",
     completed_at |-> 0]

\* a row deleted by a transaction that has not committed yet is locked:
\* an UPDATE of it, or an INSERT with its unique key, waits for the commit
RowLocked(r, rid) ==
    \E o \in Reqs \ {r} :
        req[o].kind = "cancel" /\ req[o].pc = "commit" /\ rid \in req[o].del
KeyLocked(r, u, i) ==
    \E o \in Reqs \ {r} :
        /\ req[o].kind = "cancel" /\ req[o].pc = "commit" /\ req[o].del # {}
        /\ req[o].user = u /\ req[o].item = i

\* a plain SELECT takes no row lock
NoRowLock(r, pid) == FALSE
\* SELECT ... FOR UPDATE of payment pid waits for the row lock
PaymentRowLocked(r, pid) ==
    \E o \in Reqs \ {r} :
        /\ req[o].kind = "cancel" /\ req[o].pid = pid
        /\ req[o].pc \in {"write", "commit"}

\* an UPDATE of payment pid waits for an uncommitted UPDATE of the same row
PaymentWriteLocked(r, pid) ==
    \E o \in Reqs \ {r} :
        req[o].kind = "cancel" /\ req[o].pid = pid /\ req[o].pc = "commit"

\* a lock failure answered like a business-rule rejection
LockFailureAsRejection(q) == Respond(q, 400, "lock", "done")
\* "Failed to acquire lock" raised by redis_lock and caught by the view: 409
LockFailure(q) == Respond(q, 409, "lock", "done")

\* ------------------------------------------------------- RedisLock.acquire
\* a loop that tries until the key is free
NeverGivesUp(n) == FALSE
\* for _ in range(self.retry_times): n attempts have found the key present
Exhausted(n) == n = RetryTimes

Acquire(r) ==
    /\ req[r].pc = "acquire"
    /\ LET key == LockKeyOf(r)
           q == req[r]
       IN /\ lock' = SetNX(lock, key, r)
          /\ req' = [req EXCEPT ![r] =
                IF lock'[key] = r
                THEN [q EXCEPT !.pc = IF q.kind = "cancel" THEN "select"
                                      ELSE "check"]
                ELSE IF Exhausted(q.tries + 1)
                THEN LockFailure([q EXCEPT !.tries = q.tries + 1])
                ELSE [q EXCEPT !.tries = q.tries + 1]]
    /\ UNCHANGED <<payments, regs, nextPid, nextRid, pending, count, rec, registry, call>>

\* a release that is skipped when the with block is left by an exception
ReleaseUnlessError(l, key, token, status) ==
    IF status = 500 THEN l ELSE ReleaseScript(l, key, token)
\* the finally clause of redis_lock on the way out of the with block
ReleaseOnExit(l, key, token, status) == ReleaseScript(l, key, token)

\* a return or an exception inside the with block: release, then respond
Release(r) ==
    /\ req[r].pc = "release"
    /\ lock' = ReleaseOnExit(lock, LockKeyOf(r), r, req[r].status)
    /\ req' = [req EXCEPT ![r] = Respond(req[r], req[r].status, req[r].err, "done")]
    /\ UNCHANGED <<payments, regs, nextPid, nextRid, pending, count, rec, registry, call>>

\* a key stored without ex=: it stays until somebody deletes it
NoExpiry(k) == lock[k] # 0 /\ UNCHANGED vars
\* the key's TTL (timeout=10) runs out; the request whose token it held
\* is marked expired until it returns
Expire(k) ==
    /\ lock[k] # 0
    /\ lock' = [lock EXCEPT ![k] = 0]
    /\ req' = [req EXCEPT ![lock[k]].expired = TRUE]
    /\ UNCHANGED <<payments, regs, nextPid, nextRid, pending, count, rec, registry, call>>

\* ------------------------------------ TestViewSet.apply / CourseViewSet.enroll
\* a serializer that lets every body through
AcceptsAnyBody(in) == TRUE
\* TestApplySerializer.is_valid(): validate_amount and validate_payment_method
SerializerValid(in) == in.amount > 0 /\ in.method \in Strategies

\* the serializer rejects the body before a lock key is even built
Submit(in) ==
    LET q == [IdleReq EXCEPT !.kind = "apply", !.user = in.user,
                             !.item = in.item, !.amount = in.amount,
                             !.method = in.method]
    IN IF SerializerValid(in) THEN [q EXCEPT !.pc = "acquire"]
       ELSE Respond(q, 400, "invalid", "done")

StartApply(r) ==
    /\ CanStart(r)
    /\ \E in \in {x \in ApplyInputs : x.user \in Requesters(r)} :
         req' = [req EXCEPT ![r] = Submit(in)]
    /\ UNCHANGED <<lock, payments, regs, nextPid, nextRid, pending, count, rec, registry, call>>

\* an apply whose body will be refused
StartRefused(r) ==
    /\ CanStart(r)
    /\ \E in \in {x \in RefusedInputs : x.user \in Requesters(r)} :
         req' = [req EXCEPT ![r] = Submit(in)]
    /\ UNCHANGED <<lock, payments, regs, nextPid, nextRid, pending, count, rec, registry, call>>

\* a duplicate check that filters on the item only
DuplicateExistsAnyUser(rs, u, i) == \E x \in rs : x.item = i
\* the duplicate check: TestRegistration.objects.filter(...).exists()
DuplicateExists(rs, u, i) == RegsOf(rs, u, i) # {}

\* an apply that takes any amount the strategy accepts
AmountUnchecked(q) == TRUE
\* validated_data['amount'] != test.price is refused
AmountMatches(q) == q.amount = Price(q.item)

\* the checks of the critical section, then process_payment inserts the
\* Payment inside transaction.atomic()
ApplyCheck(r) ==
    /\ req[r].pc = "check"
    /\ \E t \in Times :
       LET q == req[r] IN
         IF DuplicateExists(regs, q.user, q.item)
         THEN /\ req' = [req EXCEPT ![r] = Respond(q, 400, "duplicate", "release")]
              /\ UNCHANGED nextPid
         ELSE IF ~IsAvailable(q.item, t)
         THEN /\ req' = [req EXCEPT ![r] = Respond(q, 400, "unavailable", "release")]
              /\ UNCHANGED nextPid
         ELSE IF ~AmountMatches(q)
         THEN /\ req' = [req EXCEPT ![r] = Respond(q, 400, "amount", "release")]
              /\ UNCHANGED nextPid
         ELSE IF q.method \notin Strategies
         THEN /\ req' = [req EXCEPT ![r] = Respond(q, 400, "method", "release")]
              /\ UNCHANGED nextPid
         ELSE IF ~ValidatePayment(q.method, q.amount)
         THEN /\ req' = [req EXCEPT ![r] = Respond(q, 400, "bounds", "release")]
              /\ UNCHANGED nextPid
         ELSE /\ req' = [req EXCEPT ![r] = [q EXCEPT !.pay = nextPid,
                                                     !.pc = "insert_reg"]]
              /\ nextPid' = nextPid + 1
    /\ UNCHANGED <<lock, payments, regs, nextRid, pending, count, rec, registry, call>>

\* a Payment insert that is not part of the transaction
NotRolledBack(ps, row) == ps \cup {row}
\* the payments table once the apply transaction has ended without commit
RolledBack(ps, row) == ps

\* a touch-signal sent although the transaction did not commit
QueuedAnyway(set, i) == set \cup {i}
\* create() raised before transaction.on_commit was reached: no callback
OnRollback(set, i) == set

\* a view that keeps the counter itself
CounterIncremented(c, i) == [c EXCEPT ![i] = c[i] + 1]
\* the apply transaction writes a Payment and a Registration row and no row
\* of the item
CounterOnApply(c, i) == c

\* an apply that turns a cancelled Payment of the pair paid again
ReviveCancelled(ps, row) ==
    IF \E x \in PaymentsOf(ps, row.user, row.item) : x.status = "cancelled"
    THEN {IF x.user = row.user /\ x.item = row.item
          THEN [x EXCEPT !.status = "paid", !.cancelled_at = 0] ELSE x : x \in ps}
    ELSE ps \cup {row}
\* process_payment: Payment.objects.create(..., status='paid')
InsertPayment(ps, row) == ps \cup {row}

\* TestRegistration.objects.create(...) and the end of transaction.atomic():
\* the unique index decides, then Payment and Registration commit together
\* or the IntegrityError rolls the Payment back and surfaces as 500
ApplyInsertReg(r) ==
    /\ req[r].pc = "insert_reg"
    /\ ~KeyLocked(r, req[r].user, req[r].item)
    /\ LET q == req[r] IN
         IF UniqueViolation(regs, q.user, q.item)
         THEN /\ req' = [req EXCEPT ![r] = Respond(q, 500, "integrity", "release")]
              /\ payments' = RolledBack(payments, PaymentRow(q))
              /\ pending' = OnRollback(pending, q.item)
              /\ UNCHANGED <<regs, nextRid, count>>
         ELSE /\ req' = [req EXCEPT ![r] = [q EXCEPT !.reg = nextRid,
                                                     !.pc = "mark"]]
              /\ payments' = InsertPayment(payments, PaymentRow(q))
              /\ regs' = regs \cup {RegRow(q, nextRid)}
              /\ nextRid' = nextRid + 1
              /\ count' = CounterOnApply(count, q.item)
              /\ UNCHANGED pending
    /\ UNCHANGED <<lock, nextPid, rec, registry, call>>

\* a store that keeps the last id only
ReplaceUpdated(set, i) == {i}
\* mark_test_updated / mark_course_updated: SADD on the pending set
MarkUpdated(set, i) == set \cup {i}

\* a failure of the store that reaches the view
QueueFailureRaises(q, code) == Respond(q, 500, "unqueued", "done")
\* get_redis_client() returned None or sadd raised: logged, nothing raised
QueueFailure(q, code) == Respond(q, code, "unqueued", "done")

\* after the commit: the on_commit callback runs, the success response is
\* returned from inside the with block and the finally clause releases
Mark(r) ==
    /\ req[r].pc = "mark"
    /\ pending' = MarkUpdated(pending, req[r].item)
    /\ LET code == IF req[r].kind = "apply" THEN 201 ELSE 200 IN
         /\ req' = [req EXCEPT ![r] = Respond(req[r], code, "-", "done")]
         /\ lock' = ReleaseOnExit(lock, LockKeyOf(r), r, code)
    /\ UNCHANGED <<payments, regs, nextPid, nextRid, count, rec, registry, call>>

\* the same exit while the pending-set store cannot be reached: the callback
\* swallows the failure and the response is the one of Mark
MarkUnreachable(r) ==
    /\ req[r].pc = "mark"
    /\ LET code == IF req[r].kind = "apply" THEN 201 ELSE 200 IN
         /\ req' = [req EXCEPT ![r] = QueueFailure(req[r], code)]
         /\ lock' = ReleaseOnExit(lock, LockKeyOf(r), r, code)
    /\ UNCHANGED <<payments, regs, nextPid, nextRid, pending, count, rec, registry, call>>

\* ------------------------------------------------ PaymentCancelViewSet.cancel
\* a cancel open to every authenticated user
AnyoneOwns(p, u) == TRUE
\* payment.user != request.user is refused before the lock key is built
IsOwner(p, u) == p.user = u

StartCancel(r) ==
    /\ CanStart(r)
    /\ \E u \in Users, p \in payments :
         req' = [req EXCEPT ![r] =
                    LET q == [IdleReq EXCEPT !.kind = "cancel", !.user = u,
                                             !.pid = p.id, !.item = p.item]
                    IN IF ~IsOwner(p, u) THEN Respond(q, 403, "owner", "done")
                       ELSE [q EXCEPT !.pc = "acquire"]]
    /\ UNCHANGED <<lock, payments, regs, nextPid, nextRid, pending, count, rec, registry, call>>

\* a cancel without the status check
NeverCancelled(p) == FALSE
\* payment.status in ['cancelled', 'refunded']
AlreadyCancelled(p) == p.status \in {"cancelled", "refunded"}

\* a delete that filters on the item only
DeletedRegsOfItem(rs, u, i) == {x.id : x \in {y \in rs : y.item = i}}
\* the ids of the rows filter(user=request.user, test=target).delete() removes
DeletedRegs(rs, u, i) == {x.id : x \in RegsOf(rs, u, i)}

\* inside transaction.atomic(): select_for_update().get(pk) and the status
\* check
CancelSelect(r) ==
    /\ req[r].pc = "select"
    /\ ~PaymentRowLocked(r, req[r].pid)
    /\ LET q == req[r] IN
         req' = [req EXCEPT ![r] =
                    IF AlreadyCancelled(PaymentById(q.pid))
                    THEN Respond(q, 400, "cancelled", "release")
                    ELSE [q EXCEPT !.pc = "write"]]
    /\ UNCHANGED <<lock, payments, regs, nextPid, nextRid, pending, count, rec, registry, call>>

\* a delete through get(), which raises when the row is missing
GetRaises(del) == del = {}
\* QuerySet.delete() of a filter that matches no row deletes nothing and
\* raises nothing
DeleteRaises(del) == FALSE

\* payment.save() with status cancelled and cancelled_at, then the delete of
\* the registration, both still uncommitted
CancelWrite(r) ==
    /\ req[r].pc = "write"
    /\ ~PaymentWriteLocked(r, req[r].pid)
    /\ \A rid \in DeletedRegs(regs, req[r].user, req[r].item) : ~RowLocked(r, rid)
    /\ LET q == req[r]
           del == DeletedRegs(regs, q.user, q.item)
       IN req' = [req EXCEPT ![r] =
                    IF DeleteRaises(del)
                    THEN Respond(q, 500, "none", "release")
                    ELSE [q EXCEPT !.ts = Stamp(r), !.del = del,
                                   !.pc = "commit"]]
    /\ UNCHANGED <<lock, payments, regs, nextPid, nextRid, pending, count, rec, registry, call>>

\* a cancel that leaves the Payment as it is
CancelKeepsPaid(ps, pid, ts) == ps
\* the ledger rows after the cancel transaction commits
CancelPayment(ps, pid, ts) ==
    {IF x.id = pid THEN [x EXCEPT !.status = "cancelled", !.cancelled_at = ts]
     ELSE x : x \in ps}
\* a cancel that leaves the registration in place
KeepRegs(rs, del) == rs
CancelRegs(rs, del) == {x \in rs : x.id \notin del}

\* the end of transaction.atomic() in cancel
CancelCommit(r) ==
    /\ req[r].pc = "commit"
    /\ payments' = CancelPayment(payments, req[r].pid, req[r].ts)
    /\ regs' = CancelRegs(regs, req[r].del)
    /\ req' = [req EXCEPT ![r].pc = "mark"]
    /\ UNCHANGED <<lock, nextPid, nextRid, pending, count, rec, registry, call>>

\* --------------------------------- TestViewSet.complete / CourseViewSet.complete
\* a lookup that takes the item's first registration, whoever owns it
AnyRegistration(rs, u, i) == {x \in rs : x.item = i}
\* TestRegistration.objects.filter(user=request.user, test=test)
OwnRegistration(rs, u, i) == RegsOf(rs, u, i)

StartComplete(r) ==
    /\ CanStart(r)
    /\ \E u \in Requesters(r), i \in Items :
         LET q == [IdleReq EXCEPT !.kind = "complete", !.user = u, !.item = i]
             found == OwnRegistration(regs, u, i)
             row == CHOOSE x \in found : \A y \in found : x.id <= y.id
         IN req' = [req EXCEPT ![r] =
                IF found = {} THEN Respond(q, 404, "none", "done")
                ELSE IF row.status = "completed"
                THEN Respond(q, 400, "completed", "done")
                ELSE IF row.status = "cancelled"
                THEN Respond(q, 400, "cancelled", "done")
                ELSE [q EXCEPT !.reg = row.id, !.pc = "save"]]
    /\ UNCHANGED <<lock, payments, regs, nextPid, nextRid, pending, count, rec, registry, call>>

\* registration.save(): UPDATE by primary key, INSERT when no row matched
CompleteSave(r) ==
    /\ req[r].pc = "save"
    /\ ~RowLocked(r, req[r].reg)
    /\ LET q == req[r]
           row == [id |-> q.reg, user |-> q.user, item |-> q.item,
                   status |-> "completed", completed_at |-> Stamp(r)]
       IN IF \E x \in regs : x.id = q.reg
          THEN /\ regs' = {IF x.id = q.reg THEN row ELSE x : x \in regs}
               /\ req' = [req EXCEPT ![r] = Respond(q, 200, "-", "done")]
          ELSE /\ ~KeyLocked(r, q.user, q.item)
               /\ IF UniqueViolation(regs, q.user, q.item)
                  THEN /\ req' = [req EXCEPT ![r] = Respond(q, 500, "integrity", "done")]
                       /\ UNCHANGED regs
                  ELSE /\ regs' = regs \cup {row}
                       /\ req' = [req EXCEPT ![r] = Respond(q, 200, "-", "done")]
    /\ UNCHANGED <<lock, payments, nextPid, nextRid, pending, count, rec, registry, call>>

Next ==
    \/ \E r \in Reqs : StartApply(r)
    \/ \E r \in Reqs : StartCancel(r)
    \/ \E r \in Reqs : StartComplete(r)
    \/ \E r \in Reqs : Acquire(r)
    \/ \E r \in Reqs : ApplyCheck(r)
    \/ \E r \in Reqs : ApplyInsertReg(r)
    \/ \E r \in Reqs : CancelSelect(r)
    \/ \E r \in Reqs : CancelWrite(r)
    \/ \E r \in Reqs : CancelCommit(r)
    \/ \E r \in Reqs : Mark(r)
    \/ \E r \in Reqs : Release(r)
    \/ \E r \in Reqs : CompleteSave(r)
    \/ \E k \in LockKeys : Expire(k)

Spec == Init /\ [][Next]_vars

\* ------------------------------------------------- sync_registration_counts
ItemsOfType(ty) == {i \in Catalogue : ItemType(i) = ty}
ItemTypes == {"test", "course"}

\* the model class a pass updates has a registration_count field:
\* Course declares one, Test does not
HasCountColumn(ty) == ty = "course"

\* redis_client.smembers('test:updated_ids' / 'course:updated_ids')
Smembers(set, ty) == set \cap ItemsOfType(ty)
\* filter(test_id__in=ids).values('test_id').annotate(count=Count('id')) and
\* count_dict.get(id, 0)
RealCount(rs, i) == Cardinality({x \in rs : x.item = i})
\* redis_client.delete('test:updated_ids' / 'course:updated_ids')
DeleteKey(set, ty) == set \ ItemsOfType(ty)

\* requests received so far
Started == Cardinality({r \in Reqs : req[r].pc # "idle"})

\* a pass takes the types in turn: sync_test_counts, then sync_course_counts
\* no run is under way: none has run, or the last one returned, returned
\* after logging a failure, or raised
Rest == {"idle", "logged", "raised"}
ReadPc(ty) == IF ty = "test" THEN Rest ELSE {"course"}
WritePc(ty) == IF ty = "test" THEN "test_write" ELSE "course_write"
AfterPc(ty) == IF ty = "test" THEN "course" ELSE "idle"

\* what a pass keeps when it moves on: while it runs, the beat's run remembers
\* how many requests had been received at its start (-1: one was being handled)
MoveOn(q, ty) ==
    [IdlePass EXCEPT !.pc = AfterPc(ty),
                     !.after = IF AfterPc(ty) = "idle" THEN 0 ELSE q.after]

\* an exception leaves sync_test_counts / sync_course_counts: it is logged
\* there and again in sync_registration_counts, which raises it to the
\* Celery worker
Raised(q) == [IdlePass EXCEPT !.pc = "raised"]

\* the pending ids of the type and their ledger counts are read; an empty
\* set ends the type's turn
SyncRead(p, ty) ==
    /\ rec[p].pc \in ReadPc(ty)
    /\ LET ids == Smembers(pending, ty)
           q == IF ty # "test" \/ p \notin Passes THEN rec[p]
                ELSE [rec[p] EXCEPT !.after = IF InFlight = {} THEN Started
                                               ELSE -1]
       IN rec' = [rec EXCEPT ![p] =
                IF ids = {} THEN MoveOn(q, ty)
                ELSE [pc |-> WritePc(ty), ids |-> ids,
                      counts |-> [i \in Catalogue |->
                                    IF i \in ids THEN RealCount(regs, i) ELSE 0],
                      after |-> q.after]]
    /\ UNCHANGED <<req, lock, payments, regs, nextPid, nextRid, pending, count, registry, call>>

\* an update of every row of the model with what the query returned
WriteAllCounts(c, ids, counts) == [i \in Catalogue |-> counts[i]]
\* for id in ids: Model.objects.filter(id=id).update(registration_count=...)
WriteCounts(c, ids, counts) ==
    [i \in Catalogue |-> IF i \in ids THEN counts[i] ELSE c[i]]

\* a pass that deletes the key on its way out, whatever happened
ClearedOnFailure(set, ty) == DeleteKey(set, ty)
\* the exception skips redis_client.delete: the key stays as it is
KeyOnFailure(set, ty) == set

\* the counts are written and the type's key is deleted; the update of a
\* model without the field raises, which ends the whole pass with the key
\* still in place
SyncWrite(p, ty) ==
    /\ rec[p].pc = WritePc(ty)
    /\ IF HasCountColumn(ty)
       THEN /\ count' = WriteCounts(count, rec[p].ids, rec[p].counts)
            /\ pending' = DeleteKey(pending, ty)
            /\ rec' = [rec EXCEPT ![p] = MoveOn(rec[p], ty)]
       ELSE /\ rec' = [rec EXCEPT ![p] = Raised(rec[p])]
            /\ pending' = KeyOnFailure(pending, ty)
            /\ UNCHANGED count
    /\ UNCHANGED <<req, lock, payments, regs, nextPid, nextRid, registry, call>>

\* get_redis_client() returned None when the pass started: the error is
\* logged and the task returns
SyncNoClient(p) ==
    /\ rec[p].pc \in Rest
    /\ rec' = [rec EXCEPT ![p] = [IdlePass EXCEPT !.pc = "logged"]]
    /\ UNCHANGED <<req, lock, payments, regs, nextPid, nextRid, pending, count, registry, call>>

\* a pass that keeps a failed read to itself
ReadFailureSwallowed(q) == [IdlePass EXCEPT !.pc = "logged"]
\* smembers raised: except Exception logs the error and raises it again
ReadFailure(q) == Raised(q)

\* the store cannot be reached when the pass reads the pending set of a type
SyncReadFails(p, ty) ==
    /\ rec[p].pc \in ReadPc(ty)
    /\ rec' = [rec EXCEPT ![p] = ReadFailure(rec[p])]
    /\ UNCHANGED <<req, lock, payments, regs, nextPid, nextRid, pending, count, registry, call>>

\* the database fails in the update loop after the rows of done were
\* written: the writes stay, the key is not deleted and the exception ends
\* the pass
SyncWriteFails(p, ty) ==
    /\ rec[p].pc = WritePc(ty)
    /\ HasCountColumn(ty)
    /\ \E done \in SUBSET rec[p].ids :
         /\ done # rec[p].ids
         /\ count' = WriteCounts(count, done, rec[p].counts)
    /\ pending' = KeyOnFailure(pending, ty)
    /\ rec' = [rec EXCEPT ![p] = Raised(rec[p])]
    /\ UNCHANGED <<req, lock, payments, regs, nextPid, nextRid, registry, call>>

\* a Registration row is deleted in the ledger itself, past the views
StartDelete(r) ==
    /\ CanStart(r)
    /\ \E x \in regs :
         /\ ~RowLocked(r, x.id)
         /\ regs' = regs \ {x}
         /\ req' = [req EXCEPT ![r] =
                [IdleReq EXCEPT !.kind = "delete", !.user = x.user,
                                !.item = x.item, !.reg = x.id, !.pc = "done"]]
    /\ UNCHANGED <<lock, payments, nextPid, nextRid, pending, count, rec, registry, call>>

\* one web worker: a request is received when the one before it has returned
Serial(A) == A /\ Cardinality(InFlight') <= 1

\* one web worker, which also sees refused bodies, an unreachable
\* pending-set store and direct ledger deletes, next to the periodic task
OneWorkerNext ==
    \/ \E r \in Reqs : Serial(StartApply(r))
    \/ \E r \in Reqs : Serial(StartRefused(r))
    \/ \E r \in Reqs : Serial(StartCancel(r))
    \/ \E r \in Reqs : Serial(StartComplete(r))
    \/ \E r \in Reqs : Serial(StartDelete(r))
    \/ \E r \in Reqs : Acquire(r)
    \/ \E r \in Reqs : ApplyCheck(r)
    \/ \E r \in Reqs : ApplyInsertReg(r)
    \/ \E r \in Reqs : CancelSelect(r)
    \/ \E r \in Reqs : CancelWrite(r)
    \/ \E r \in Reqs : CancelCommit(r)
    \/ \E r \in Reqs : Mark(r)
    \/ \E r \in Reqs : MarkUnreachable(r)
    \/ \E r \in Reqs : Release(r)
    \/ \E r \in Reqs : CompleteSave(r)
    \/ \E p \in Passes, ty \in ItemTypes : SyncRead(p, ty)
    \/ \E p \in Passes, ty \in ItemTypes : SyncWrite(p, ty)

SpecOneWorker == Init /\ [][OneWorkerNext]_vars

\* the worker process dies inside the with block: the finally clause never
\* runs, an open transaction is rolled back and no response is sent
Crash(r) ==
    /\ req[r].pc \in {"check", "insert_reg", "select", "write", "commit",
                      "mark", "release"}
    /\ lock[LockKeyOf(r)] = r
    /\ req' = [req EXCEPT ![r] = Respond(req[r], 0, "crashed", "done")]
    /\ UNCHANGED <<lock, payments, regs, nextPid, nextRid, pending, count, rec, registry, call>>

\* one web worker whose process can die while it holds a lock, and the
\* lock store that expires keys
CrashNext ==
    \/ \E r \in 1..MaxLiveRequests : Serial(StartApply(r))
    \/ \E r \in 1..MaxLiveRequests : Serial(StartCancel(r))
    \/ \E r \in Reqs : Acquire(r)
    \/ \E r \in Reqs : ApplyCheck(r)
    \/ \E r \in Reqs : ApplyInsertReg(r)
    \/ \E r \in Reqs : CancelSelect(r)
    \/ \E r \in Reqs : CancelWrite(r)
    \/ \E r \in Reqs : CancelCommit(r)
    \/ \E r \in Reqs : Mark(r)
    \/ \E r \in Reqs : Release(r)
    \/ \E r \in Reqs : Crash(r)
    \/ \E k \in LockKeys : Expire(k)

\* ----------------------------------------------- the task on a used ledger
\* the pairs that can have a Registration when the task starts, numbered
Pairs ==
    {[n |-> 1, user |-> "u1", item |-> "c1"], [n |-> 2, user |-> "u2", item |-> "c1"],
     [n |-> 3, user |-> "u1", item |-> "c2"], [n |-> 4, user |-> "u2", item |-> "c2"],
     [n |-> 5, user |-> "u1", item |-> "t1"]}
\* the rows earlier enrolls and applies of the pairs in S have committed
LedgerRegs(S) ==
    {[id |-> x.n, user |-> x.user, item |-> x.item,
      status |-> IF ItemType(x.item) = "test" THEN "applied" ELSE "enrolled",
      completed_at |-> 0] : x \in S}
LedgerPayments(S) ==
    {[id |-> x.n, user |-> x.user, item |-> x.item, amount |-> Price(x.item),
      method |-> IF ItemType(x.item) = "test" THEN "kakaopay" ELSE "card",
      status |-> "paid", cancelled_at |-> 0] : x \in S}

\* a database in use and no request under way: some pairs are registered,
\* a course's count is 0 or was left at 2 by an earlier pass, and any ids
\* are pending
InitUsed ==
    /\ req = [r \in Reqs |-> IdleReq]
    /\ lock = [k \in LockKeys |-> 0]
    /\ \E S \in SUBSET Pairs :
         regs = LedgerRegs(S) /\ payments = LedgerPayments(S)
    /\ nextPid = Cardinality(Pairs) + 1
    /\ nextRid = Cardinality(Pairs) + 1
    /\ pending \in SUBSET Catalogue
    /\ count \in {c \in [Catalogue -> {0, 2}] :
                     \A i \in Catalogue : ~HasCountColumn(ItemType(i)) => c[i] = 0}
    /\ rec = [p \in Overlapping |-> IdlePass]
    /\ registry = Builtin
    /\ call = NoCall

\* the periodic task alone, which can also lose the database in its update
\* loop
ReconcileNext ==
    \/ \E p \in Passes, ty \in ItemTypes : SyncRead(p, ty)
    \/ \E p \in Passes, ty \in ItemTypes : SyncWrite(p, ty)
    \/ \E p \in Passes, ty \in ItemTypes : SyncWriteFails(p, ty)

SpecReconcile == InitUsed /\ [][ReconcileNext]_vars

\* ------------------------------------------- calls of the pure methods
\* the instants a caller can ask about: each window's ends and one tick
\* outside them
Instants == 0..(MaxTime + 1)

\* item.is_available() at instant t
CallIsAvailable(i, t) ==
    /\ call' = [NoCall EXCEPT !.fn = "is_available", !.item = i, !.at = t,
                              !.out = Bool(IsAvailable(i, t))]
    /\ UNCHANGED <<req, lock, payments, regs, nextPid, nextRid, pending, count,
                   rec, registry>>

\* PaymentStrategyFactory.get_strategy(k)
CallGetStrategy(k) ==
    /\ call' = [NoCall EXCEPT !.fn = "get_strategy", !.key = k,
                              !.out = GetStrategy(registry, k)]
    /\ UNCHANGED <<req, lock, payments, regs, nextPid, nextRid, pending, count,
                   rec, registry>>

\* PaymentStrategyFactory.register_strategy(k, c)
CallRegisterStrategy(k, c) ==
    /\ registry' = RegisterStrategy(registry, k, c)
    /\ call' = [NoCall EXCEPT !.fn = "register_strategy", !.key = k,
                              !.class = c, !.out = "None"]
    /\ UNCHANGED <<req, lock, payments, regs, nextPid, nextRid, pending, count,
                   rec>>

CallsNext ==
    \/ \E i \in Items, t \in Instants : CallIsAvailable(i, t)
    \/ \E k \in Keys : CallGetStrategy(k)
    \/ \E k \in Keys, c \in Classes : CallRegisterStrategy(k, c)

SpecCalls == Init /\ [][CallsNext]_vars

\* what a worker does next for request r once it has received it
Handle(r) ==
    \/ Acquire(r) \/ ApplyCheck(r) \/ ApplyInsertReg(r)
    \/ CancelSelect(r) \/ CancelWrite(r) \/ CancelCommit(r)
    \/ Mark(r) \/ Release(r) \/ CompleteSave(r)

\* two web workers that keep running the handler of a request they received
FairNext ==
    \/ \E r \in 1..MaxLiveRequests : StartApply(r)
    \/ \E r \in 1..MaxLiveRequests : StartCancel(r)
    \/ \E r \in 1..MaxLiveRequests : StartComplete(r)
    \/ \E r \in Reqs : Handle(r)
    \/ \E k \in LockKeys : Expire(k)

SpecFair ==
    Init /\ [][FairNext]_vars /\ \A r \in Reqs : WF_vars(Handle(r))

\* ------------------------------------------- RedisLock used by a caller
\* A slot of req can also hold a RedisLock object that a caller uses by
\* itself: kind "lock", the key in user and item, the slot's id as the value
\* acquire would store.  Its pc is "new" after the constructor (lock_value
\* is None), "trying" inside acquire (lock_value is set), "held" after
\* acquire returned True, "failed" after it returned False and "released"
\* after a release that followed a successful acquire.  status counts the
\* calls of release and err holds what the last one returned.
MaxReleases == 2

\* lock = RedisLock(key, ...)
NewLock(r, u, i) ==
    /\ req[r].pc = "idle"
    /\ \A o \in Reqs : o < r => req[o].pc # "idle"
    /\ req' = [req EXCEPT ![r] = [IdleReq EXCEPT !.kind = "lock", !.user = u,
                                                 !.item = i, !.pc = "new"]]
    /\ UNCHANGED <<lock, payments, regs, nextPid, nextRid, pending, count, rec, registry, call>>

\* lock.acquire(): self.lock_value = str(uuid.uuid4()), then the attempts
LockCall(r) ==
    /\ req[r].kind = "lock" /\ req[r].pc = "new"
    /\ req' = [req EXCEPT ![r].pc = "trying"]
    /\ UNCHANGED <<lock, payments, regs, nextPid, nextRid, pending, count, rec, registry, call>>

\* one round of the loop of acquire
LockAttempt(r) ==
    /\ req[r].kind = "lock" /\ req[r].pc = "trying"
    /\ lock' = SetNX(lock, LockKeyOf(r), r)
    /\ req' = [req EXCEPT ![r] =
            IF lock[LockKeyOf(r)] = 0 THEN [@ EXCEPT !.pc = "held"]
            ELSE IF Exhausted(@.tries + 1)
                 THEN [@ EXCEPT !.pc = "failed", !.tries = @ + 1]
                 ELSE [@ EXCEPT !.tries = @ + 1]]
    /\ UNCHANGED <<payments, regs, nextPid, nextRid, pending, count, rec, registry, call>>

\* a release that reports success whatever the store holds
AlwaysReleased(l, key, token) == TRUE
\* bool(result) of release: the script deleted the key
Released(l, key, token) == l[key] = token

\* lock.release(): False at once while lock_value is None, else the script
LockRelease(r) ==
    /\ req[r].kind = "lock"
    /\ req[r].pc \in {"new", "held", "failed", "released"}
    /\ req[r].status < MaxReleases
    /\ lock' = IF req[r].pc = "new" THEN lock
               ELSE ReleaseScript(lock, LockKeyOf(r), r)
    /\ req' = [req EXCEPT ![r] =
            [@ EXCEPT !.pc = IF @ = "held" THEN "released" ELSE @,
                      !.status = @ + 1,
                      !.err = IF req[r].pc = "new" THEN Bool(FALSE)
                              ELSE Bool(Released(lock, LockKeyOf(r), r))]]
    /\ UNCHANGED <<payments, regs, nextPid, nextRid, pending, count, rec, registry, call>>

LockNext ==
    \/ \E r \in 1..MaxLiveRequests, u \in Users, i \in Items : NewLock(r, u, i)
    \/ \E r \in Reqs : LockCall(r)
    \/ \E r \in Reqs : LockAttempt(r)
    \/ \E r \in Reqs : LockRelease(r)
    \/ \E k \in LockKeys : Expire(k)

SpecLock == Init /\ [][LockNext]_vars

\* the store's clock runs whatever the workers do: while a key is set, a
\* TTL runs out
SpecCrash ==
    Init /\ [][CrashNext]_vars /\ WF_vars(\E k \in LockKeys : Expire(k))

\* one web worker handling applies and cancels, and two runs of the periodic
\* task that can overlap and can find the pending-set store unreachable
TwoPassesNext ==
    \/ \E r \in Reqs : Serial(StartApply(r))
    \/ \E r \in Reqs : Serial(StartCancel(r))
    \/ \E r \in Reqs : Acquire(r)
    \/ \E r \in Reqs : ApplyCheck(r)
    \/ \E r \in Reqs : ApplyInsertReg(r)
    \/ \E r \in Reqs : CancelSelect(r)
    \/ \E r \in Reqs : CancelWrite(r)
    \/ \E r \in Reqs : CancelCommit(r)
    \/ \E r \in Reqs : Mark(r)
    \/ \E r \in Reqs : Release(r)
    \/ \E p \in Overlapping, ty \in ItemTypes : SyncRead(p, ty)
    \/ \E p \in Overlapping, ty \in ItemTypes : SyncWrite(p, ty)
    \/ \E p \in Overlapping : SyncNoClient(p)
    \/ \E p \in Overlapping, ty \in ItemTypes : SyncReadFails(p, ty)

SpecTwoPasses == Init /\ [][TwoPassesNext]_vars

\* ------------------------------------------------------------ vocabulary
Done(r) == req[r].pc = "done"
Quiescent == InFlight = {}
SameKey(a, b) ==
    /\ req[a].kind = "apply" /\ req[b].kind = "apply"
    /\ req[a].user = req[b].user /\ req[a].item = req[b].item
InSection(r) ==
    req[r].kind = "apply" /\ req[r].pc \in {"check", "insert_reg", "mark", "release"}
AppliesOn(u, i) ==
    {r \in Reqs : req[r].kind = "apply" /\ req[r].user = u /\ req[r].item = i}
OwnerCancelsOn(u, i) ==
    {r \in Reqs : /\ req[r].kind = "cancel" /\ req[r].status # 403
                  /\ req[r].user = u /\ req[r].item = i}
CancelsOf(pid) ==
    {r \in Reqs : req[r].kind = "cancel" /\ req[r].status # 403 /\ req[r].pid = pid}
ValidBody(r) ==
    /\ req[r].amount = Price(req[r].item)
    /\ req[r].method \in Strategies
    /\ ValidatePayment(req[r].method, req[r].amount)
WithStatus(S, code) == {r \in S : req[r].status = code}

\* K >= 2 applies with a valid body for a pair that starts without a
\* Registration have all returned, the item was open each time, and nobody
\* cancelled a payment of the pair
ApplyRace(u, i) ==
    /\ Quiescent
    /\ Cardinality(AppliesOn(u, i)) >= 2
    /\ OwnerCancelsOn(u, i) = {}
    /\ \A r \in AppliesOn(u, i) : ValidBody(r) /\ req[r].err # "unavailable"

\* C1 as stated: of K >= 2 applies for one pair exactly one returns 201, every
\* other returns 400 or 409, and one Payment and one Registration row exist
C1_Original ==
    \A u \in Users, i \in Items : ApplyRace(u, i) =>
        /\ Cardinality(WithStatus(AppliesOn(u, i), 201)) = 1
        /\ \A r \in AppliesOn(u, i) : req[r].status \in {201, 400, 409}
        /\ Cardinality(PaymentsOf(payments, u, i)) = 1
        /\ Cardinality(RegsOf(regs, u, i)) = 1

\* C1 amended: of K >= 2 applies for one pair exactly one returns 201, every
\* other returns 400, 409 or 500, and one Payment and one Registration row
\* exist afterwards
C1_AtMostOneRegistration ==
    \A u \in Users, i \in Items : ApplyRace(u, i) =>
        /\ Cardinality(WithStatus(AppliesOn(u, i), 201)) = 1
        /\ \A r \in AppliesOn(u, i) : req[r].status \in {201, 400, 409, 500}
        /\ Cardinality(PaymentsOf(payments, u, i)) = 1
        /\ Cardinality(RegsOf(regs, u, i)) = 1

C1_Witness ==
    \E u \in Users, i \in Items :
        /\ ApplyRace(u, i)
        /\ WithStatus(AppliesOn(u, i), 201) # {}
        /\ WithStatus(AppliesOn(u, i), 500) # {}

\* C2: in every reachable state each (user, item) pair has at most one
\* Registration row, also when a lock expired under its holder
C2_UniqueRegistration ==
    \A u \in Users, i \in Items : Cardinality(RegsOf(regs, u, i)) <= 1

\* the unique index turned down an insert of a request that had passed the
\* duplicate check
C2_Witness ==
    \E r \in Reqs : req[r].err = "integrity" /\ RegsOf(regs, req[r].user, req[r].item) # {}

\* K >= 2 cancels of payment p by its owner have all returned, and the pair
\* saw no other request than the apply that created p
CancelRace(p) ==
    /\ Quiescent
    /\ Cardinality(CancelsOf(p.id)) >= 2
    /\ \A r \in Reqs :
        (req[r].kind # "none" /\ req[r].user = p.user /\ req[r].item = p.item)
            => (r \in CancelsOf(p.id) \/ (req[r].kind = "apply" /\ req[r].pay = p.id))

\* C3: of K >= 2 cancels of one paid Payment by its owner exactly one returns
\* 200 and every other 400 or 409; afterwards the Payment is cancelled with
\* cancelled_at set and the pair has no Registration
C3_CancelExclusive ==
    \A p \in payments : CancelRace(p) =>
        /\ Cardinality(WithStatus(CancelsOf(p.id), 200)) = 1
        /\ \A r \in CancelsOf(p.id) : req[r].status \in {200, 400, 409}
        /\ p.status = "cancelled" /\ p.cancelled_at # 0
        /\ RegsOf(regs, p.user, p.item) = {}

C3_Witness ==
    \E p \in payments :
        /\ CancelRace(p)
        /\ WithStatus(CancelsOf(p.id), 200) # {}
        /\ WithStatus(CancelsOf(p.id), 409) # {}

\* C4: a Payment is paid with no cancelled_at or cancelled with one; it is
\* never removed; a cancelled Payment's row never changes again, and a cancel
\* that finds it cancelled returns 400 and writes nothing
C4_PaymentMonotonic ==
    /\ [](\A p \in payments :
            /\ p.status \in {"paid", "cancelled"}
            /\ p.status = "paid" <=> p.cancelled_at = 0)
    /\ [][/\ \A p \in payments : \E n \in payments' : n.id = p.id
          /\ \A p \in payments : p.status = "cancelled" => p \in payments'
          /\ \A r \in Reqs :
                (/\ req[r].pc = "select" /\ req'[r].pc # "select"
                 /\ PaymentById(req[r].pid).status = "cancelled")
                    => (/\ req'[r].status = 400
                        /\ req'[r].pc = "release"
                        /\ payments' = payments /\ regs' = regs)]_vars

C4_Witness ==
    \E r \in Reqs :
        /\ req[r].kind = "cancel" /\ Done(r)
        /\ req[r].status = 400 /\ req[r].err = "cancelled"
        /\ PaymentById(req[r].pid).cancelled_at # 0

NewPayments(u, i) ==
    {n \in payments' : n.user = u /\ n.item = i /\ \A p \in payments : p.id # n.id}
NewRegs(u, i) ==
    {n \in regs' : /\ n.user = u /\ n.item = i /\ n.status \in {"applied", "enrolled"}
                   /\ \A x \in regs : x.id # n.id}

\* C5: a step commits a new Payment for a pair exactly when it commits a new
\* Registration for the pair, the Payment being paid; an apply that returned
\* an error has left no Payment behind
C5_ApplyAtomic ==
    /\ [](\A r \in Reqs :
            (req[r].kind = "apply" /\ req[r].status \in {400, 409, 500})
                => \A p \in payments : p.id # req[r].pay)
    /\ [][\A u \in Users, i \in Items :
            /\ NewPayments(u, i) # {} <=> NewRegs(u, i) # {}
            /\ \A n \in NewPayments(u, i) : n.status = "paid"]_vars

\* an apply whose Registration insert failed after its Payment insert
C5_Witness ==
    \E r \in Reqs :
        /\ req[r].kind = "apply" /\ req[r].status = 500 /\ req[r].pay # 0
        /\ \A p \in payments : p.id # req[r].pay

Cancelled(p) ==
    \E n \in payments' : n.id = p.id /\ p.status = "paid" /\ n.status = "cancelled"

\* C6: the step that turns a Payment cancelled sets cancelled_at and leaves
\* the pair without Registration, and a Registration row disappears only in
\* a step that turns a Payment of its pair cancelled
C6_CancelAtomic ==
    [][/\ \A p \in payments : Cancelled(p) =>
            /\ \A n \in payments' : n.id = p.id => n.cancelled_at # 0
            /\ RegsOf(regs', p.user, p.item) = {}
       /\ \A x \in regs : (\A n \in regs' : n.id # x.id) =>
            \E p \in PaymentsOf(payments, x.user, x.item) : Cancelled(p)]_vars

C6_Witness ==
    \E r \in Reqs :
        /\ req[r].kind = "cancel" /\ req[r].status = 200 /\ req[r].del # {}
        /\ PaymentById(req[r].pid).status = "cancelled"
        /\ RegsOf(regs, req[r].user, req[r].item) = {}

\* C7 as stated: two applies of one lock key are never inside the critical
\* section at the same time
C7_Original ==
    \A a \in Reqs, b \in Reqs :
        (a # b /\ SameKey(a, b)) => ~(InSection(a) /\ InSection(b))

\* C7 amended: two applies of one lock key are inside the critical section
\* at the same time only if the key of one of them expired under it, and an
\* apply that checks after a Registration of the pair was committed is
\* rejected with 400 and writes nothing
C7_Serialized ==
    /\ [](\A a \in Reqs, b \in Reqs :
            (a # b /\ SameKey(a, b) /\ InSection(a) /\ InSection(b))
                => (req[a].expired \/ req[b].expired))
    /\ [][\A r \in Reqs :
            (/\ req[r].pc = "check" /\ req'[r].pc # "check"
             /\ RegsOf(regs, req[r].user, req[r].item) # {})
                => (/\ req'[r].status = 400 /\ req'[r].err = "duplicate"
                    /\ req'[r].pay = 0
                    /\ payments' = payments /\ regs' = regs)]_vars

\* an apply waited for the key, got it after the holder's commit and was
\* turned down as a duplicate
C7_Witness ==
    \E a \in Reqs, b \in Reqs :
        /\ SameKey(a, b) /\ Done(a) /\ Done(b)
        /\ req[a].status = 201
        /\ req[b].tries >= 1 /\ req[b].status = 400 /\ req[b].err = "duplicate"

SoleOnKey(r) == \A o \in Reqs \ {r} : ~SameKey(r, o)

\* C8: an apply that no other apply shares its lock key with never returns
\* 409, and returns 201 when its body is valid and the item is open
C8_CrossKeyParallel ==
    \A r \in Reqs :
        (req[r].kind = "apply" /\ SoleOnKey(r)) =>
            /\ req[r].status # 409
            /\ (Done(r) /\ ValidBody(r) /\ req[r].err # "unavailable")
                    => req[r].status = 201

\* while request a holds its key inside the critical section, another user's
\* apply for the same item and the same user's apply for another item have
\* both returned 201
C8_Witness ==
    \E a \in Reqs, b \in Reqs, c \in Reqs :
        /\ a < b /\ a < c
        /\ req[a].kind = "apply" /\ req[b].kind = "apply" /\ req[c].kind = "apply"
        /\ req[a].pc \in {"insert_reg", "mark"} /\ lock[LockKeyOf(a)] = a
        /\ req[b].user # req[a].user /\ req[b].item = req[a].item
        /\ req[c].user = req[a].user /\ req[c].item # req[a].item
        /\ Done(b) /\ req[b].status = 201
        /\ Done(c) /\ req[c].status = 201

\* C9: a request that has returned no longer has its token stored under its
\* lock key, whatever the exit path; a stored token belongs to a request
\* that is still running
C9_ReleasedOnExit ==
    /\ \A r \in Reqs :
        (Done(r) /\ req[r].kind \in {"apply", "cancel"}) => lock[LockKeyOf(r)] # r
    /\ \A k \in LockKeys : lock[k] # 0 => lock[k] \in InFlight

\* requests have left the critical section by a success, by a business
\* rejection and by an exception, and no key is held
C9_Witness ==
    /\ \E a \in Reqs, b \in Reqs, c \in Reqs :
        /\ Done(a) /\ Done(b) /\ Done(c)
        /\ req[a].status = 201 /\ req[b].status = 400 /\ req[c].status = 500
        /\ req[b].err = "duplicate"
    /\ \A k \in LockKeys : lock[k] = 0

\* C10: a stored token leaves the store only when its own request releases
\* it or its TTL runs out: the release of a request whose key expired and was
\* taken by another request leaves that request's token in place
C10_CompareAndDelete ==
    [][\A k \in LockKeys :
        (lock[k] # 0 /\ lock'[k] # lock[k]) =>
            /\ lock'[k] = 0
            /\ (req[lock[k]].pc # "done" /\ req'[lock[k]].pc = "done")
                    \/ (req'[lock[k]].expired /\ ~req[lock[k]].expired)]_vars

\* request a has committed and returned while b, which took the key after
\* a's TTL ran out and before a's commit, still holds it
C10_Witness ==
    \E a \in Reqs, b \in Reqs :
        /\ a # b /\ SameKey(a, b)
        /\ Done(a) /\ req[a].status = 201
        /\ req[b].pc = "insert_reg" /\ lock[LockKeyOf(b)] = b

\* ------------------------------------------------- vocabulary of the passes
\* this step ends pass p, by a return or by an exception
PassEnds(p) == rec[p].pc \notin Rest /\ rec'[p].pc \in Rest
\* this step ends pass p by the return of sync_course_counts
PassReturns(p) == rec[p].pc \in {"course", "course_write"} /\ rec'[p].pc = "idle"
\* no request was being handled when pass p began and none came since
QuietPass(p) == rec[p].after = Started
\* no touch-signal was dropped by an unreachable store
AllQueued == \A r \in Reqs : req[r].err # "unqueued"
NoDirectDelete == \A r \in Reqs : req[r].kind # "delete"
InLedger(i) == RealCount(regs, i)

\* C11 as stated: when a pass that ran with no concurrent activity ends after
\* applies and cancels whose touch-signals were all queued, every item's
\* registration_count equals its number of Registration rows and the
\* pending set is empty
C11_Original ==
    [][\A p \in Passes :
        (PassEnds(p) /\ QuietPass(p) /\ AllQueued /\ NoDirectDelete)
            => /\ \A i \in Items : count'[i] = RealCount(regs', i)
               /\ pending' = {}]_vars

\* C12 as stated: once activity has stopped and one further pass has
\* completed, every item's registration_count equals its number of
\* Registration rows, whatever passes and commits interleaved before
C12_Original ==
    [][\A p \in Passes :
        (PassReturns(p) /\ QuietPass(p) /\ AllQueued /\ NoDirectDelete)
            => \A i \in Items : count'[i] = InLedger(i)]_vars

\* C13 as stated: when a pass ends that began after Registration rows of an
\* item were deleted in the ledger itself, the item's registration_count
\* equals the number of its remaining rows
C13_Original ==
    [][\A p \in Passes, r \in Reqs :
        (PassEnds(p) /\ QuietPass(p) /\ AllQueued /\ req[r].kind = "delete")
            => count'[req[r].item] = Cardinality({x \in regs : x.item = req[r].item})]_vars

\* this step is the write of pass p for item type ty
WriteStep(p, ty) == rec[p].pc = WritePc(ty) /\ rec'[p].pc # rec[p].pc
\* this step is the on_commit callback and the response of request r
MarkStep(r) == req[r].pc = "mark" /\ req'[r].pc = "done"
\* the transaction of request r has committed its rows
Committed(r) ==
    IF req[r].kind = "apply"
    THEN \E x \in payments : x.id = req[r].pay /\ x.user = req[r].user
    ELSE \E x \in payments : x.id = req[r].pid /\ x.status = "cancelled"

\* C14: registration_count changes only in the write of a reconcile pass, and
\* that step is no step of apply, enroll, complete or cancel
C14_CountWrittenByPassOnly ==
    [][count' # count =>
        /\ \E p \in Passes, ty \in ItemTypes : WriteStep(p, ty)
        /\ req' = req]_vars

C14_Witness ==
    /\ count["c1"] = 1 /\ InLedger("c1") = 0
    /\ \E r \in Reqs : Done(r) /\ req[r].kind = "cancel" /\ req[r].status = 200
                         /\ req[r].item = "c1"
    /\ \E r \in Reqs : Done(r) /\ req[r].kind = "complete" /\ req[r].status = 200

\* C15: the callback step of a committed apply, enroll or cancel puts the
\* item's id into the pending set unless the store is unreachable, and an id
\* enters the pending set only in such a step of a request that answers
\* 201 or 200
C15_QueuedAfterCommit ==
    [][/\ \A r \in Reqs :
            (MarkStep(r) /\ req'[r].err # "unqueued")
                => (req[r].item \in pending' /\ Committed(r))
       /\ \A i \in Items :
            (i \notin pending /\ i \in pending')
                => \E r \in Reqs : /\ MarkStep(r) /\ req[r].item = i
                                   /\ Committed(r)
                                   /\ req'[r].status \in {200, 201}]_vars

C15_Witness ==
    /\ \E r \in Reqs : /\ Done(r) /\ req[r].status = 201 /\ req[r].err = "-"
                        /\ req[r].item \in pending
    /\ \E r \in Reqs : /\ Done(r) /\ req[r].status = 500
                        /\ req[r].err = "integrity"
                        /\ req[r].item \notin pending

\* C16: when the touch-signal cannot be queued the request still answers 201
\* or 200, its rows stay committed, and the step changes no table
C16_QueueFailureIsSilent ==
    /\ [](\A r \in Reqs : req[r].err = "unqueued" =>
            /\ req[r].status = IF req[r].kind = "apply" THEN 201 ELSE 200
            /\ Committed(r))
    /\ [][\A r \in Reqs : (MarkStep(r) /\ req'[r].err = "unqueued") =>
            (payments' = payments /\ regs' = regs /\ pending' = pending)]_vars

C16_Witness ==
    \E r \in Reqs :
        /\ Done(r) /\ req[r].kind = "apply" /\ req[r].err = "unqueued"
        /\ req[r].status = 201 /\ req[r].item \notin pending
        /\ RegsOf(regs, req[r].user, req[r].item) # {}

\* C17: queueing an id that is already pending leaves the pending set as it
\* is, and queueing a new id adds exactly that id and keeps the others
C17_EnqueueIdempotent ==
    [][\A r \in Reqs : (MarkStep(r) /\ req'[r].err # "unqueued") =>
            /\ req[r].item \in pending => pending' = pending
            /\ req[r].item \notin pending =>
                    /\ pending' = pending \cup {req[r].item}
                    /\ Cardinality(pending') = Cardinality(pending) + 1]_vars

C17_Witness ==
    /\ pending = {"t1", "c1"}
    /\ \E a \in Reqs, b \in Reqs :
        /\ a < b /\ Done(a) /\ Done(b)
        /\ req[a].item = "t1" /\ req[b].item = "t1"
        /\ req[a].status = 201 /\ req[b].status = 201
        /\ req[a].err = "-" /\ req[b].err = "-"

\* C18: a request whose acquire used up its attempts answers 409 and no
\* other request does (a business-rule rejection answers 400); the step
\* changes no Payment or Registration row, the request wrote none, and once
\* answered it takes no further step
C18_LockFailureIsConflict ==
    /\ [](\A r \in Reqs :
            /\ req[r].err = "lock" <=> req[r].status = 409
            /\ req[r].status = 409 =>
                    /\ Done(r) /\ req[r].tries = RetryTimes
                    /\ req[r].kind \in {"apply", "cancel"}
                    /\ req[r].pay = 0 /\ req[r].reg = 0 /\ req[r].del = {}
                    /\ req[r].ts = 0)
    /\ [][\A r \in Reqs :
            /\ (req[r].pc = "acquire" /\ req'[r].status = 409)
                    => (payments' = payments /\ regs' = regs /\ pending' = pending)
            /\ Done(r) => req'[r] = req[r]]_vars

C18_Witness ==
    \E a \in Reqs, b \in Reqs :
        /\ SameKey(a, b) /\ Done(a) /\ Done(b)
        /\ req[a].status = 409 /\ req[b].status = 400
        /\ req[b].err = "duplicate"

\* the check of the critical section refuses request r in this step
RefusedStep(r) ==
    /\ req[r].pc = "check"
    /\ req'[r].err \in {"duplicate", "unavailable", "amount"}

FailsValidation(r) ==
    /\ req[r].kind = "apply"
    /\ \/ ~SerializerValid([amount |-> req[r].amount, method |-> req[r].method])
       \/ /\ req[r].method \in Strategies
          /\ ~ValidatePayment(req[r].method, req[r].amount)

\* C20 as stated: a request whose body fails validation never holds its lock
\* key, and none of its steps changes the lock store, a table or the
\* pending set
C20_Original ==
    /\ [](\A r \in Reqs : FailsValidation(r) => lock[LockKeyOf(r)] # r)
    /\ [][\A r \in Reqs : (FailsValidation(r)' /\ req'[r] # req[r]) =>
            /\ lock' = lock /\ payments' = payments /\ regs' = regs
            /\ pending' = pending]_vars

\* the body of request r is one the serializer refuses
BadBody(r) ==
    /\ req[r].kind = "apply"
    /\ (req[r].amount <= 0 \/ req[r].method \notin Strategies)

\* C20: a body the serializer refuses is answered 400 at once: the request
\* makes no acquire attempt, never holds its lock key and its step changes
\* neither the lock store nor a table nor the pending set.  An amount outside
\* the strategy's bounds is answered 400 inside the critical section: the
\* request has written no row, its steps change no table and no pending set,
\* and it does not hold the key once it has answered
C20_ValidationFrame ==
    /\ [](\A r \in Reqs :
            /\ BadBody(r) =>
                    /\ Done(r) /\ req[r].status = 400 /\ req[r].err = "invalid"
                    /\ req[r].tries = 0 /\ lock[LockKeyOf(r)] # r
            /\ req[r].err = "bounds" =>
                    /\ req[r].status = 400 /\ req[r].pay = 0 /\ req[r].reg = 0
                    /\ ~ValidatePayment(req[r].method, req[r].amount)
                    /\ Done(r) => lock[LockKeyOf(r)] # r)
    /\ [][\A r \in Reqs :
            /\ (BadBody(r)' /\ req'[r] # req[r]) => lock' = lock
            /\ ((BadBody(r)' \/ req'[r].err = "bounds") /\ req'[r] # req[r]) =>
                    /\ payments' = payments /\ regs' = regs
                    /\ pending' = pending /\ nextPid' = nextPid]_vars

C20_Witness ==
    \E a \in Reqs, b \in Reqs :
        /\ Done(a) /\ req[a].err = "invalid" /\ req[a].status = 400
        /\ Done(b) /\ req[b].err = "bounds" /\ req[b].status = 400
        /\ req[b].amount = Price(req[b].item)
        /\ \A k \in LockKeys : lock[k] = 0

\* a complete request is received / its save() is executed
CompleteStarts(r) == req[r].pc = "idle" /\ req'[r].kind = "complete"
CompleteSaves(r) == req[r].pc = "save" /\ req'[r].pc = "done"
Active(x) == x.status \in {"applied", "enrolled"}

\* C21: complete answers 404 when the requester has no Registration of the
\* item (also when another user has one) and 400 when the requester's is
\* completed or cancelled, changing nothing; otherwise its save turns the
\* requester's own applied/enrolled row into completed with completed_at set,
\* answers 200 and changes no other field and no other row
C21_CompleteOwnRegistration ==
    [][\A r \in Reqs :
        /\ CompleteStarts(r) =>
              LET own == RegsOf(regs, req'[r].user, req'[r].item) IN
                /\ regs' = regs /\ payments' = payments /\ pending' = pending
                /\ own = {} => (req'[r].status = 404 /\ req'[r].pc = "done")
                /\ (\E x \in own : ~Active(x))
                        => (req'[r].status = 400 /\ req'[r].pc = "done")
                /\ (\E x \in own : Active(x))
                        => (/\ req'[r].pc = "save" /\ req'[r].status = 0
                            /\ \E x \in own : x.id = req'[r].reg)
        /\ (CompleteSaves(r) /\ \E x \in regs : x.id = req[r].reg) =>
              LET x == CHOOSE y \in regs : y.id = req[r].reg IN
                /\ x.user = req[r].user /\ x.item = req[r].item /\ Active(x)
                /\ req'[r].status = 200
                /\ regs' = (regs \ {x})
                            \cup {[x EXCEPT !.status = "completed",
                                            !.completed_at = Stamp(r)]}
                /\ Stamp(r) # 0
                /\ payments' = payments /\ pending' = pending]_vars

\* a user completed a registration and the other user's complete of the same
\* item, received afterwards, was answered 404
C21_Witness ==
    \E a \in Reqs, b \in Reqs :
        /\ req[a].kind = "complete" /\ Done(a) /\ req[a].status = 200
        /\ req[b].kind = "complete" /\ Done(b) /\ req[b].status = 404
        /\ a < b /\ req[a].item = req[b].item /\ req[a].user # req[b].user
        /\ \E x \in regs : /\ x.id = req[a].reg /\ x.status = "completed"
                            /\ x.completed_at = Stamp(a)

\* a cancel sent by somebody else than the payment's owner
NonOwnerCancel(q) ==
    q.kind = "cancel" /\ q.user # PaymentById(q.pid).user

\* C22: a cancel by a user who does not own the payment is answered 403 at
\* once: it never tries to take the lock, never holds it, and its handling
\* changes no Payment, no Registration, no lock key and no pending entry
C22_NonOwnerRefused ==
    /\ [](\A r \in Reqs : NonOwnerCancel(req[r]) =>
            /\ Done(r) /\ req[r].status = 403
            /\ req[r].tries = 0
            /\ lock[CancelLockKey(req[r].pid)] # r)
    /\ [][\A r \in Reqs :
            (req[r].pc = "idle" /\ NonOwnerCancel(req'[r])) =>
                /\ lock' = lock /\ payments' = payments
                /\ regs' = regs /\ pending' = pending]_vars

\* a payment's cancel was refused to another user and granted to its owner
C22_Witness ==
    \E a \in Reqs, b \in Reqs :
        /\ NonOwnerCancel(req[a]) /\ Done(a) /\ req[a].status = 403
        /\ req[b].kind = "cancel" /\ req[b].pid = req[a].pid
        /\ Done(b) /\ req[b].status = 200
        /\ PaymentById(req[a].pid).status = "cancelled"

\* this step is pass p finding the pending-set store unreachable, at its
\* start or at the read of a pending set
StoreFailure(p) ==
    /\ rec[p].pc \in Rest \cup {"course"}
    /\ rec'[p].pc \in {"logged", "raised"} /\ rec'[p] # rec[p]

\* C23 as stated: a pass that finds the store unreachable at its start or at
\* the read of a pending set changes no count, and the failure is logged
\* and not raised to the scheduler
C23_Original ==
    [][\A p \in Overlapping :
        StoreFailure(p) => (/\ count' = count /\ pending' = pending
                            /\ rec'[p].pc = "logged")]_vars

\* C23 amended: a pass that finds the store unreachable changes no count and
\* no pending set and ends at once; a failure of the read of test:updated_ids
\* or course:updated_ids is logged and raised to the scheduler, and a read
\* failure after the test counts leaves the course set unread
C23_StoreFailureAborts ==
    [][\A p \in Overlapping :
        StoreFailure(p) =>
            /\ count' = count /\ pending' = pending /\ regs' = regs
            /\ rec'[p].ids = {} /\ rec'[p].pc \in Rest
            /\ rec[p].pc = "course" => rec'[p].pc = "raised"]_vars

\* a pass was refused the store at the read of the course set while a
\* course id was pending and its count was stale
C23_Witness ==
    \E p \in Overlapping :
        /\ rec[p].pc = "raised"
        /\ "c1" \in pending /\ "t1" \notin pending
        /\ count["c1"] # InLedger("c1")

\* C24: a key that is set is eventually absent again, also when its holder
\* died without releasing it, and an acquire that finds the key absent takes
\* the lock
C24_CrashedLockExpires ==
    /\ \A k \in LockKeys : (lock[k] # 0) ~> (lock[k] = 0)
    /\ [][\A r \in Reqs :
            (/\ req[r].pc = "acquire" /\ req'[r] # req[r]
             /\ lock[LockKeyOf(r)] = 0)
                => (/\ lock'[LockKeyOf(r)] = r
                    /\ req'[r].pc \in {"check", "select"})]_vars

\* a holder died, its key expired afterwards, and a later request holds the
\* same key
C24_Witness ==
    \E a \in Reqs, b \in Reqs :
        /\ req[a].err = "crashed" /\ req[a].expired
        /\ a < b /\ LockKeyOf(a) = LockKeyOf(b)
        /\ lock[LockKeyOf(b)] = b /\ req[b].pc \in {"check", "select"}

\* this step is a set-if-absent attempt of request r
AttemptStep(r) == req[r].pc = "acquire" /\ req'[r] # req[r]

\* C25: acquire makes at most RetryTimes set-if-absent attempts, which is
\* within a first attempt and RetryTimes retries; an attempt that finds the
\* key absent takes the lock at once; the lock-acquisition failure is
\* reported exactly when RetryTimes attempts have all found the key present;
\* and a request that waits for a lock ends with a response
C25_AcquireTerminates ==
    /\ [](\A r \in Reqs :
            /\ req[r].tries <= RetryTimes /\ req[r].tries <= 1 + RetryTimes
            /\ req[r].err = "lock" <=> (Done(r) /\ req[r].tries = RetryTimes
                                          /\ req[r].status = 409))
    /\ [][\A r \in Reqs : AttemptStep(r) =>
            IF lock[LockKeyOf(r)] = 0
            THEN /\ lock'[LockKeyOf(r)] = r
                 /\ req'[r].pc \in {"check", "select"}
                 /\ req'[r].tries = req[r].tries
            ELSE /\ lock' = lock
                 /\ req'[r].tries = req[r].tries + 1
                 /\ req'[r].pc = IF req'[r].tries = RetryTimes THEN "done"
                                  ELSE "acquire"]_vars
    /\ \A r \in Reqs : (req[r].pc = "acquire") ~> Done(r)

\* a request gave up after RetryTimes attempts at a key another request held
\* all the while, and that request has answered 201
C25_Witness ==
    \E a \in Reqs, b \in Reqs :
        /\ SameKey(a, b) /\ a # b
        /\ Done(a) /\ req[a].status = 201 /\ ~req[a].expired
        /\ Done(b) /\ req[b].err = "lock" /\ req[b].tries = RetryTimes

\* both runs of the task are over
PassesOver == \A p \in Overlapping : rec[p].pc \in Rest

\* C26 as stated: when two overlapping passes have finished, no request is
\* being handled and no touch-signal is pending, every item's
\* registration_count equals its number of Registration rows, also when
\* applies and cancels committed between the passes' reads and writes
C26_Original ==
    (PassesOver /\ Quiescent /\ pending = {})
        => \A i \in Items : count[i] = InLedger(i)

\* C27: an item is available exactly when start_at <= now <= end_at: it is at
\* start_at and at end_at, and not one tick before start_at or after end_at
C27_WindowInclusive ==
    /\ \A i \in Items :
        /\ IsAvailable(i, StartAt(i)) /\ IsAvailable(i, EndAt(i))
        /\ ~IsAvailable(i, StartAt(i) - 1) /\ ~IsAvailable(i, EndAt(i) + 1)
    /\ call.fn = "is_available" =>
        (call.out = "True"
            <=> (StartAt(call.item) <= call.at /\ call.at <= EndAt(call.item)))

\* is_available was asked at the very end of an item's window and said yes
C27_Witness ==
    /\ call.fn = "is_available" /\ call.at = EndAt(call.item)
    /\ StartAt(call.item) < call.at /\ call.out = "True"

\* this step is a call of register_strategy
RegisterStep ==
    call'.fn = "register_strategy" /\ (call' # call \/ registry' # registry)

\* C28: get_strategy(k) returns an instance of the class registered for k,
\* or fails with the unsupported-method error when none is; after
\* register_strategy(k, c) get_strategy(k) returns c and k is among the
\* supported methods, and the entry of every other key is as it was
C28_StrategyRegistry ==
    /\ [](call.fn = "get_strategy" =>
            call.out = IF call.key \in SupportedMethods(registry)
                       THEN registry[call.key] ELSE "ValueError")
    /\ [](\A k \in Strategies : GetStrategy(registry, k) \in Classes)
    /\ [][RegisterStep =>
            /\ GetStrategy(registry', call'.key) = call'.class
            /\ call'.key \in SupportedMethods(registry')
            /\ \A j \in Keys \ {call'.key} : registry'[j] = registry[j]]_vars

\* a class was registered for a method that had one, and get_strategy
\* returns it while the other methods keep theirs
C28_Witness ==
    /\ call.fn = "get_strategy" /\ call.key = "kakaopay"
    /\ call.out = "CryptoPaymentStrategy"
    /\ registry["card"] = "CardPaymentStrategy"
    /\ "crypto" \notin SupportedMethods(registry)

\* the bounds as the strategies are said to have them, and amounts at, next
\* to and between them
StatedMin(m) == IF m = "kakaopay" THEN 100 ELSE 1000
StatedMax(m) ==
    IF m = "kakaopay" THEN 50000000
    ELSE IF m = "card" THEN 100000000 ELSE 200000000
Amounts ==
    {1, 99, 100, 101, 500, 999, 1000, 1001, 45000, 49999999, 50000000,
     50000001, 99999999, 100000000, 100000001, 199999999, 200000000,
     200000001}
WithinStated(m, a) == StatedMin(m) <= a /\ a <= StatedMax(m)

\* C29: validate accepts an amount exactly when it lies within the
\* strategy's inclusive bounds (KakaoPay 100 to 50,000,000, Card 1,000 to
\* 100,000,000, BankTransfer 1,000 to 200,000,000) and gives a reason when it
\* refuses; an apply whose amount is the price but outside the bounds of its
\* method is answered 400 and creates no Payment and no Registration
C29_StrategyBounds ==
    /\ [](\A m \in Strategies, a \in Amounts :
            /\ ValidatePayment(m, a) <=> WithinStated(m, a)
            /\ ValidationMessage(m, a) = "None" <=> ValidatePayment(m, a))
    /\ [][\A r \in Reqs :
            (/\ req[r].pc = "check" /\ req'[r].pc # "check"
             /\ req'[r].err \notin {"duplicate", "unavailable"}
             /\ req[r].amount = Price(req[r].item)
             /\ req[r].method \in Strategies
             /\ ~WithinStated(req[r].method, req[r].amount))
                => (/\ req'[r].status = 400 /\ req'[r].err = "bounds"
                    /\ req'[r].pay = 0 /\ req'[r].reg = 0
                    /\ payments' = payments /\ regs' = regs)]_vars
    /\ [](\A r \in Reqs : req[r].err = "bounds" =>
            /\ req[r].status = 400 /\ req[r].pay = 0 /\ req[r].reg = 0
            /\ ~WithinStated(req[r].method, req[r].amount))

\* the price of a test, below the card minimum, was offered by card and
\* refused, and the pair has no Payment and no Registration
C29_Witness ==
    \E r \in Reqs :
        /\ Done(r) /\ req[r].err = "bounds" /\ req[r].status = 400
        /\ req[r].method = "card" /\ req[r].amount = Price(req[r].item)
        /\ req[r].amount < StatedMin("card")
        /\ PaymentsOf(payments, req[r].user, req[r].item) = {}
        /\ RegsOf(regs, req[r].user, req[r].item) = {}

\* C30 as stated: a Registration that is completed stays in the ledger with
\* status completed whatever complete and cancel requests follow, and the
\* rows a cancel removes are all applied or enrolled
C30_Original ==
    [][NoDirectDelete' =>
        /\ \A x \in regs : x.status = "completed" =>
                \E y \in regs' : y.id = x.id /\ y.status = "completed"
        /\ \A x \in regs \ regs' : (\A y \in regs' : y.id # x.id) => Active(x)]_vars

\* a complete and a cancel of one pair have both returned, the cancel with
\* 200, and the pair saw one apply
CompleteCancelRace(a, b) ==
    /\ req[a].kind = "complete" /\ Done(a)
    /\ req[b].kind = "cancel" /\ Done(b) /\ req[b].status = 200
    /\ req[a].user = req[b].user /\ req[a].item = req[b].item
    /\ Cardinality(AppliesOn(req[a].user, req[a].item)) = 1

\* C31 as stated: when a complete and a cancel of the same pair have both
\* returned, in whatever interleaving, and the cancel returned 200, the pair
\* has no Registration row and the complete returned 200, 404 or 400
C31_Original ==
    \A a \in Reqs, b \in Reqs : CompleteCancelRace(a, b) =>
        /\ RegsOf(regs, req[a].user, req[a].item) = {}
        /\ req[a].status \in {200, 404, 400}

PaidOf(u, i) == {p \in PaymentsOf(payments, u, i) : p.status = "paid"}

\* C32 as stated: in every committed state each Registration row of a pair
\* is accompanied by a paid Payment of that user for that item
C32_Original ==
    \A x \in regs : PaidOf(x.user, x.item) # {}

\* C33: in every committed state a pair has at most one paid Payment, also
\* when two applies of the pair were in the critical section together after
\* the lock expired
C33_OnePaidPayment ==
    \A u \in Users, i \in Items : Cardinality(PaidOf(u, i)) <= 1

\* two applies of a pair met in the critical section, the unique index
\* turned one of them down, and the pair has its one paid Payment
C33_Witness ==
    \E a \in Reqs, b \in Reqs :
        /\ SameKey(a, b) /\ Done(a) /\ Done(b)
        /\ req[a].status = 201 /\ req[b].err = "integrity"
        /\ PaidOf(req[a].user, req[a].item) = {PaymentById(req[a].pay)}

\* this step commits the transaction of cancel r
CancelCommits(r) ==
    req[r].kind = "cancel" /\ req[r].pc = "commit" /\ req'[r].pc = "mark"

\* C34: the commit of a cancel removes no Registration but the requester's
\* for the payment's item and changes no Payment but the one cancelled:
\* Registrations of other users for the item and of the requester for other
\* items stay as they are, and no row is added
C34_CancelFrame ==
    [][\A r \in Reqs : CancelCommits(r) =>
        /\ regs' \subseteq regs
        /\ \A x \in regs :
              (x.user # req[r].user \/ x.item # req[r].item) => x \in regs'
        /\ \A p \in payments : p.id # req[r].pid => p \in payments'
        /\ Cardinality(payments') = Cardinality(payments)]_vars

\* a cancel removed the requester's Registration while another user's
\* Registration of the same item and that user's Payment are as before
C34_Witness ==
    \E r \in Reqs, x \in regs :
        /\ req[r].kind = "cancel" /\ Done(r) /\ req[r].status = 200
        /\ req[r].del # {}
        /\ x.item = req[r].item /\ x.user # req[r].user
        /\ PaidOf(x.user, x.item) # {}
        /\ RegsOf(regs, req[r].user, req[r].item) = {}

\* C35: a cancel by the owner of a Payment that is still paid answers 200
\* and leaves the Payment cancelled with cancelled_at set, also when the pair
\* has no Registration: a cancel ends otherwise only because the requester is
\* not the owner, the lock was not obtained or the Payment was cancelled
\* before
C35_CancelWithoutRegistration ==
    /\ [](\A r \in Reqs : (req[r].kind = "cancel" /\ Done(r)) =>
            \/ req[r].err \in {"owner", "lock", "cancelled"}
            \/ /\ req[r].status = 200
               /\ PaymentById(req[r].pid).status = "cancelled"
               /\ PaymentById(req[r].pid).cancelled_at # 0)
    /\ [][\A r \in Reqs :
            (/\ req[r].kind = "cancel" /\ req[r].pc = "write"
             /\ req'[r].pc # "write"
             /\ RegsOf(regs, req[r].user, req[r].item) = {})
                => (req'[r].pc = "commit" /\ req'[r].del = {})]_vars

\* a paid Payment whose Registration was gone from the ledger was cancelled
\* by its owner with 200
C35_Witness ==
    \E r \in Reqs, d \in Reqs :
        /\ req[r].kind = "cancel" /\ Done(r) /\ req[r].status = 200
        /\ req[r].del = {}
        /\ req[d].kind = "delete" /\ d < r
        /\ req[d].user = req[r].user /\ req[d].item = req[r].item
        /\ PaymentById(req[r].pid).status = "cancelled"

\* apply b is the first apply of its pair since a cancel of a Payment of
\* the pair returned 200
Reopens(a, b) ==
    /\ req[a].kind = "cancel" /\ Done(a) /\ req[a].status = 200
    /\ req[b].kind = "apply" /\ a < b
    /\ req[a].user = req[b].user /\ req[a].item = req[b].item
    /\ \A c \in Reqs : (a < c /\ c < b) => ~SameKey(c, b)

\* C36: after a cancel that returned 200, the next apply of the same user
\* for the same item with a valid body, made while the item is open, passes
\* the checks, commits a new paid Payment and a new Registration while the
\* earlier Payment stays cancelled, and returns 201
C36_ReopenedAfterCancel ==
    [][\A a \in Reqs, b \in Reqs : (Reopens(a, b) /\ ValidBody(b)) =>
        /\ (req[b].pc = "check" /\ req'[b].pc # "check"
                /\ req'[b].err # "unavailable")
              => req'[b].pc = "insert_reg"
        /\ (req[b].pc = "insert_reg" /\ req'[b].pc # "insert_reg")
              => /\ req'[b].pc = "mark"
                 /\ payments' = payments \cup {PaymentRow(req[b])}
                 /\ PaymentRow(req[b]) \notin payments
                 /\ regs' = regs \cup {RegRow(req[b], req'[b].reg)}
                 /\ RegsOf(regs, req[b].user, req[b].item) = {}
                 /\ PaymentById(req[a].pid).status = "cancelled"
        /\ (req[b].pc = "mark" /\ req'[b].pc # "mark")
              => (req'[b].status = 201 /\ Done(b)')]_vars

\* a pair was registered, cancelled and registered again: its first Payment
\* is cancelled, its second is paid and it has a Registration
C36_Witness ==
    \E a \in Reqs, b \in Reqs :
        /\ Reopens(a, b) /\ Done(b) /\ req[b].status = 201
        /\ PaymentById(req[a].pid).status = "cancelled"
        /\ PaymentById(req[b].pay).status = "paid"
        /\ req[b].pay # req[a].pid
        /\ \E x \in regs : x.id = req[b].reg /\ x.user = req[b].user

\* this step is a step of pass p
PassStep(p) == rec'[p] # rec[p]
\* this step is pass p reading the pending set of type ty
ReadStep(p, ty) == PassStep(p) /\ rec[p].pc \in ReadPc(ty) /\ rec'[p].pc # "raised"

\* C37: a step of a reconcile pass changes no Payment and no Registration
\* row; it changes the registration_count of an item only if the pass read
\* the item's id from the pending set of the item's type, which it holds
\* from its read on; and a read that finds the set empty changes no count
\* and no pending set
C37_ReconcileFrame ==
    [][\A p \in Passes : PassStep(p) =>
        /\ payments' = payments /\ regs' = regs
        /\ \A i \in Catalogue : count'[i] # count[i] =>
                (i \in rec[p].ids /\ rec[p].pc = WritePc(ItemType(i)))
        /\ \A ty \in ItemTypes : ReadStep(p, ty) =>
                /\ rec'[p].ids = Smembers(pending, ty)
                /\ count' = count /\ pending' = pending]_vars

\* a pass wrote the count of the course it had read and left the stale count
\* of the other course, which was not pending, as it was
C37_Witness ==
    /\ count["c1"] = 1 /\ InLedger("c1") = 1
    /\ count["c2"] = 2 /\ InLedger("c2") # 2
    /\ pending = {}
    /\ \A p \in Passes : rec[p].pc = "idle"

\* this step is pass p failing after it has read the pending set of a type
FailsAfterRead(p) ==
    rec[p].pc \in {"test_write", "course_write"} /\ rec'[p].pc = "raised"

\* C38: when a pass fails after reading a pending set and before clearing
\* it, the pending sets stay as they are, so that every id the pass had read
\* is still pending, and each count the step wrote is the ledger count the
\* pass had read for that item
C38_FailedPassKeepsPending ==
    [][\A p \in Passes : FailsAfterRead(p) =>
        /\ pending' = pending
        /\ rec[p].ids \subseteq pending'
        /\ regs' = regs /\ payments' = payments
        /\ \A i \in Catalogue : count'[i] # count[i] =>
                (i \in rec[p].ids /\ count'[i] = rec[p].counts[i])]_vars

\* a pass failed between the writes of two pending courses: the first has
\* its ledger count, the second its stale count, and both are still pending
C38_Witness ==
    /\ \E p \in Passes : rec[p].pc = "raised"
    /\ {"c1", "c2"} \subseteq pending /\ "t1" \notin pending
    /\ count["c1"] = 1 /\ InLedger("c1") = 1
    /\ count["c2"] = 2 /\ InLedger("c2") = 1

\* this step is a call of release by the lock object r
ReleaseCall(r) ==
    req[r].kind = "lock" /\ req'[r].status = req[r].status + 1

\* the lock object r does not hold its key: the store has no value under the
\* key or the value of another caller
NotHolding(r) == lock[LockKeyOf(r)] # r

\* C39: a release by a caller that does not hold the key (it never acquired,
\* its acquire failed after all its attempts, it already released, or its
\* key ran out) returns false and leaves the lock store as it was, so that a
\* second release never deletes the lock another caller took in between
C39_ReleaseByNonHolder ==
    [][\A r \in Reqs : (ReleaseCall(r) /\ NotHolding(r)) =>
        /\ req'[r].err = Bool(FALSE)
        /\ lock' = lock]_vars

\* a released its lock with success, b acquired the same key, and a second
\* release of a came back false while b still holds the key
C39_Witness ==
    \E a, b \in Reqs :
        /\ a # b
        /\ req[a].kind = "lock" /\ req[b].kind = "lock"
        /\ LockKeyOf(a) = LockKeyOf(b)
        /\ req[a].pc = "released" /\ ~req[a].expired
        /\ req[a].status = 2 /\ req[a].err = Bool(FALSE)
        /\ req[b].pc = "held" /\ lock[LockKeyOf(b)] = b

====
